---- MODULE Spec2Model ----
(***************************************************************************)
(* State-machine model of the NIFTY 50 breakout bot                        *)
(* (src/nifty50-breakout-bot/src/bot.js, first copy, lines 1-591, and      *)
(* src/nifty50-breakout-bot/src/utils.js).                                 *)
(*                                                                         *)
(* Units.  The wall clock is a minute of the day (09:15:00 = 555); every   *)
(* cutoff of CONFIG is a whole minute, so hhmmss() >= 'HH:MM:00' is the    *)
(* comparison of minutes, and a candle bucket (60000 ms) is one minute.    *)
(* The clock is assumed monotonic within the session, and one run of the   *)
(* synchronous tick handler reads one clock value.  Prices are whole       *)
(* rupees; the two values a JavaScript number takes outside them, NaN and  *)
(* Infinity, are sentinels with their IEEE comparison rules written out.   *)
(***************************************************************************)
EXTENDS Integers, Sequences, FiniteSets, TLC

\* ------------------------------------------------------------- bounds
\* ticks the feed delivers in a trading session
MaxTicks == 7
\* prices the feed trades at
MinPrice == 100
MaxPrice == 101
\* opening-range minutes of a running session the feed leaves without a tick
MaxGaps == 0
\* ticks that carry neither lp nor c
MaxMalformed == 1
\* positions in the broker book at the close of a trading session
MaxBook == 1
\* ticks and book positions of the session-close specification
MaxCloseTicks == 2
MaxPos == 2

\* ------------------------------------------------------------- CONFIG
RISK_PER_TRADE == 100
VOLATILITY_THRESH == 1
MARKET_OPEN == 555
FIRST_CANDLE_END == 560
ENTRY_CUTOFF == 720
MARKET_CLOSE == 920
maxPerSide == 1

\* ------------------------------------------------------------- values
NaN == -1
Infinity == -2
Absent == -3
NoSymbol == "null"

Symbols == {"X"}
tokens == [s \in Symbols |-> "tk" \o s]
KnownTokens == {tokens[s] : s \in Symbols}
AllTokens == KnownTokens \cup {"tkUnknown"}
Prices == MinPrice..MaxPrice
Sides == {"LONG", "SHORT"}
StartTimes == {MARKET_OPEN, MARKET_OPEN + 1}

VARIABLES time, tickCount, candles, firstCandle, qualified, verdictLog,
          positions, trades, brackets, pc, sqPos, sqIdx, eodOrders, sqStat, malformed, startedAt,
          wsReady, marketPhase, feedLog

vars == <<time, tickCount, candles, firstCandle, qualified, verdictLog,
          positions, trades, brackets, pc, sqPos, sqIdx, eodOrders, sqStat, malformed, startedAt,
          wsReady, marketPhase, feedLog>>

\* ------------------------------------------------------------- helpers
Abs(x) == IF x < 0 THEN 0 - x ELSE x

Max2(a, b) == IF a >= b THEN a ELSE b

Min2(a, b) == IF a <= b THEN a ELSE b

\* Math.max / Math.min of two numbers: NaN if either is NaN
MathMax(a, b) == IF a = NaN \/ b = NaN THEN NaN ELSE Max2(a, b)

MathMin(a, b) == IF a = NaN \/ b = NaN THEN NaN ELSE Min2(a, b)

\* a > b and a < b on JavaScript numbers: false when either is NaN
jsGT(a, b) == a # NaN /\ b # NaN /\ a > b

\* variant of jsLT: any two different numbers compare as less
jsLTMut(a, b) == a # NaN /\ b # NaN /\ a # b

jsLT(a, b) == a # NaN /\ b # NaN /\ a < b

RECURSIVE MaxOf(_)
MaxOf(s) == IF Len(s) = 1 THEN s[1] ELSE MathMax(s[1], MaxOf(Tail(s)))

RECURSIVE MinOf(_)
MinOf(s) == IF Len(s) = 1 THEN s[1] ELSE MathMin(s[1], MinOf(Tail(s)))

\* parseFloat(tick.lp || tick.c): an absent field is undefined, which is
\* falsy, and parseFloat(undefined) is NaN
parseFloat(x) == IF x = Absent THEN NaN ELSE x

tickPrice(tick) == parseFloat(IF tick.lp # Absent THEN tick.lp ELSE tick.c)

tokenToSymbol(tk) ==
    IF \E s \in Symbols : tokens[s] = tk
    THEN CHOOSE s \in Symbols : tokens[s] = tk
    ELSE NoSymbol

\* Math.floor(Date.now() / 60000) * 60000, the clock counted in minutes
CandleWidth == 1
bucket(t) == (t \div CandleWidth) * CandleWidth

\* The session clock: minute by minute through the opening range, then to
\* the entry cutoff, then to the market close.
NextTimes(t) ==
    IF t < FIRST_CANDLE_END THEN {t + 1}
    ELSE IF t < ENTRY_CUTOFF THEN {ENTRY_CUTOFF}
    ELSE IF t < MARKET_CLOSE THEN {MARKET_CLOSE}
    ELSE {}

\* utils.timeIsAfter(target)
\* variant of timeIsAfter: the target instant itself does not count
timeIsAfterMut(target, now) == now > target

timeIsAfter(target, now) == now >= target

\* ------------------------------------------------------------- PositionManager
canEnter(arr, side) ==
    Len(SelectSeq(arr, LAMBDA p : p.side = side /\ p.openQty > 0)) < maxPerSide

pmAdd(arr, side, qty, price) ==
    Append(arr, [side |-> side, qty |-> qty, avg |-> price, openQty |-> qty])

\* PositionManager.close; no method of BreakoutBot calls it
pmClose(arr, side) ==
    [i \in DOMAIN arr |-> IF arr[i].side = side THEN [arr[i] EXCEPT !.openQty = 0] ELSE arr[i]]

\* ------------------------------------------------------------- candle aggregation
\* variant of startsNewCandle: the bucket of the last candle is not compared
startsNewCandleMut(arr, ts) == TRUE

startsNewCandle(arr, ts) == Len(arr) = 0 \/ arr[Len(arr)].ts # ts

\* variant of updateCandle: the update also moves the open
updateCandleMut(cd, price) ==
    [cd EXCEPT !.o = price, !.h = MathMax(cd.h, price), !.l = MathMin(cd.l, price),
               !.c = price]

updateCandle(cd, price) ==
    [cd EXCEPT !.h = MathMax(cd.h, price), !.l = MathMin(cd.l, price), !.c = price]

aggregate(arr, ts, price) ==
    IF startsNewCandle(arr, ts)
    THEN Append(arr, [ts |-> ts, o |-> price, h |-> price, l |-> price, c |-> price])
    ELSE [arr EXCEPT ![Len(arr)] = updateCandle(arr[Len(arr)], price)]

\* ------------------------------------------------------------- qualification
marketOpenTs == bucket(9 * 60 + 15)

firstCandleEndTs == bucket(9 * 60 + 20)

first5(arr) == SelectSeq(arr, LAMBDA cd : cd.ts >= marketOpenTs /\ cd.ts < firstCandleEndTs)

RECURSIVE mapH(_)
mapH(s) == IF s = <<>> THEN <<>> ELSE <<s[1].h>> \o mapH(Tail(s))

RECURSIVE mapL(_)
mapL(s) == IF s = <<>> THEN <<>> ELSE <<s[1].l>> \o mapL(Tail(s))

\* variant of windowFull: a window one candle short is accepted
windowFullMut(w) == Len(w) >= 4

windowFull(w) == Len(w) = 5

\* v = ((hi - lo) / op) * 100;  v < CONFIG.VOLATILITY_THRESH
\* variant of volBelowThresh: a volatility equal to the threshold passes
volBelowThreshMut(hi, lo, op) ==
    /\ hi # NaN /\ lo # NaN /\ op # NaN
    /\ (hi - lo) * 100 <= VOLATILITY_THRESH * op

volBelowThresh(hi, lo, op) ==
    /\ hi # NaN /\ lo # NaN /\ op # NaN
    /\ (hi - lo) * 100 < VOLATILITY_THRESH * op

\* variant of qualifiesNow: the check opens one minute before the cutoff
qualifiesNowMut(sym, t) == sym \notin DOMAIN firstCandle /\ t >= FIRST_CANDLE_END - 1

qualifiesNow(sym, t) == sym \notin DOMAIN firstCandle /\ t >= FIRST_CANDLE_END

\* lines 302-332: the state of firstCandle, qualified and the verdict lines
\* printed, after the qualification step of a tick read at clock t
qualify(sym, arr, t) ==
    LET w   == first5(arr)
        hi  == MaxOf(mapH(w))
        lo  == MinOf(mapL(w))
        op  == w[1].o
        old == [fc |-> firstCandle, q |-> qualified, log |-> verdictLog]
    IN  IF qualifiesNow(sym, t) /\ windowFull(w)
        THEN IF volBelowThresh(hi, lo, op)
             THEN [fc  |-> [s \in DOMAIN firstCandle \cup {sym} |->
                              IF s = sym
                              THEN [hi |-> hi, lo |-> lo,
                                    volatility |-> <<(hi - lo) * 100, op>>]
                              ELSE firstCandle[s]],
                   q   |-> qualified \cup {sym},
                   log |-> [verdictLog EXCEPT ![sym] = Append(@, "qualified")]]
             ELSE [old EXCEPT !.log = [verdictLog EXCEPT ![sym] = Append(@, "disqualified")]]
        ELSE old

\* ------------------------------------------------------------- placeTrade
\* variant of qtyOf: the floor of one share is dropped
qtyOfMut(risk, entry, sl) ==
    IF entry = sl THEN Infinity ELSE risk \div Abs(entry - sl)

\* Math.max(1, Math.floor(risk / Math.abs(entry - sl))); x / 0 is Infinity
qtyOf(risk, entry, sl) ==
    IF entry = sl THEN Infinity ELSE Max2(1, risk \div Abs(entry - sl))

\* variant of tgtOf: the Short branch subtracts (entry - sl)
tgtOfMut(dir, entry, sl) ==
    IF dir = "LONG" THEN entry + (entry - sl) ELSE entry - (entry - sl)

tgtOf(dir, entry, sl) ==
    IF dir = "LONG" THEN entry + (entry - sl) ELSE entry - (sl - entry)

\* lines 411-419: what placeTrade computes before its first await
intent(sym, dir, entry, sl, risk, at) ==
    [sym |-> sym, dir |-> dir, entry |-> entry, sl |-> sl, risk |-> risk,
     qty |-> qtyOf(risk, entry, sl), tgt |-> tgtOf(dir, entry, sl),
     side |-> IF dir = "LONG" THEN "B" ELSE "S", at |-> at]

\* ------------------------------------------------------------- breakout detection
\* variant of entryAllowed: the cutoff instant itself still admits
entryAllowedMut(sym, q, t) == sym \in q /\ t <= ENTRY_CUTOFF

entryAllowed(sym, q, t) == sym \in q /\ t < ENTRY_CUTOFF

\* one of the two ifs of lines 337-346 applied to st = [pos, trades, brackets].
\* placeTrade runs first, up to its first await: it issues the entry order
\* (line 417) while the Position Manager still holds st.pos, and slotsAtSubmit
\* keeps the number of slots of the side listed at that moment; pm.add
\* follows when placeTrade has returned its promise.
breakoutSide(st, sym, dir, hit, entry, sl, at) ==
    IF hit /\ canEnter(st.pos, dir)
    THEN LET it == intent(sym, dir, entry, sl, RISK_PER_TRADE, at)
         IN  [pos      |-> pmAdd(st.pos, dir, 0, entry),
              trades   |-> Append(st.trades, it),
              brackets |-> Append(st.brackets,
                                  [n |-> Len(st.trades) + 1, stage |-> "entry",
                                   entryRes |-> "pending", stopRes |-> "none",
                                   tgtRes |-> "none", legs |-> {"entry"},
                                   slotsAtSubmit |->
                                     Len(SelectSeq(st.pos, LAMBDA p : p.side = dir))])]
         ELSE st

\* variant of breakout: the Long branch passes the range boundaries swapped
breakoutMut(sym, price, fc, q, at) ==
    LET st0 == [pos |-> positions[sym], trades |-> trades, brackets |-> brackets]
    IN  IF entryAllowed(sym, q, at)
        THEN LET st1 == breakoutSide(st0, sym, "LONG", jsGT(price, fc[sym].hi),
                                     fc[sym].lo, fc[sym].hi, at)
             IN  breakoutSide(st1, sym, "SHORT", jsLT(price, fc[sym].lo),
                              fc[sym].lo, fc[sym].hi, at)
        ELSE st0

breakout(sym, price, fc, q, at) ==
    LET st0 == [pos |-> positions[sym], trades |-> trades, brackets |-> brackets]
    IN  IF entryAllowed(sym, q, at)
        THEN LET st1 == breakoutSide(st0, sym, "LONG", jsGT(price, fc[sym].hi),
                                     fc[sym].hi, fc[sym].lo, at)
             IN  breakoutSide(st1, sym, "SHORT", jsLT(price, fc[sym].lo),
                              fc[sym].lo, fc[sym].hi, at)
        ELSE st0

\* ------------------------------------------------------------- actions
Init ==
    /\ time \in StartTimes
    /\ startedAt = time
    /\ tickCount = 0
    /\ candles = [s \in Symbols |-> <<>>]
    /\ firstCandle = <<>>
    /\ qualified = {}
    /\ verdictLog = [s \in Symbols |-> <<>>]
    /\ positions = [s \in Symbols |-> <<>>]
    /\ trades = <<>>
    /\ brackets = <<>>
    /\ pc = "loop"
    /\ sqPos = <<>>
    /\ sqIdx = 0
    /\ eodOrders = <<>>
    /\ sqStat = "none"
    /\ malformed = 0
    /\ wsReady = TRUE
    /\ feedLog = <<>>
    /\ marketPhase = "none"

\* opening-range minutes of the running session that ended before clock t
\* without any candle
missed(t) ==
    Cardinality({m \in MARKET_OPEN..(FIRST_CANDLE_END - 1) :
                   /\ startedAt <= m /\ m < t
                   /\ \A s \in Symbols : \A i \in DOMAIN candles[s] : candles[s][i].ts # m})

\* the wall clock moves on; the feed leaves at most maxGaps opening minutes empty
ClockAdvance(maxGaps) ==
    /\ pc # "exited"
    /\ \E t \in NextTimes(time) : missed(t) <= maxGaps /\ time' = t
    /\ UNCHANGED <<tickCount, candles, firstCandle, qualified, verdictLog,
                   positions, trades, brackets, pc, sqPos, sqIdx, eodOrders, sqStat, malformed, startedAt, wsReady, marketPhase, feedLog>>

\* The feed.  A tick carrying neither lp nor c is malformed, and the feed
\* sends at most MaxMalformed of them.
PricesAt(t) == Prices

TicksAt(t, toks) ==
    [tk : toks, lp : PricesAt(t), c : {Absent}]
    \cup [tk : toks, lp : {Absent}, c : {MinPrice}]
    \cup (IF malformed < MaxMalformed
          THEN [tk : toks, lp : {Absent}, c : {Absent}]
          ELSE {})

isMalformed(tick) == tick.lp = Absent /\ tick.c = Absent

\* BreakoutBot.onTick, lines 253-352, applied to one tick
handleTick(tick) ==
    LET sym == tokenToSymbol(tick.tk) IN
    /\ tickCount' = tickCount + 1
    /\ malformed' = IF isMalformed(tick) THEN malformed + 1 ELSE malformed
    /\ IF sym = NoSymbol
       THEN UNCHANGED <<candles, firstCandle, qualified, verdictLog,
                        positions, trades, brackets>>
       ELSE LET price == tickPrice(tick)
                arr   == aggregate(candles[sym], bucket(time), price)
                qr    == qualify(sym, arr, time)
                br    == breakout(sym, price, qr.fc, qr.q, time)
            IN  /\ candles' = [candles EXCEPT ![sym] = arr]
                /\ firstCandle' = qr.fc
                /\ qualified' = qr.q
                /\ verdictLog' = qr.log
                /\ positions' = [positions EXCEPT ![sym] = br.pos]
                /\ trades' = br.trades
                /\ brackets' = br.brackets
    /\ UNCHANGED <<time, pc, sqPos, sqIdx, eodOrders, sqStat, startedAt, wsReady, marketPhase>>

\* the feed delivers one of its ticks to onTick; feedLog is the record of
\* the prices delivered, kept only where a specification asks for it
OnTick(maxTicks, toks) ==
    /\ pc # "exited"
    /\ tickCount < maxTicks
    /\ \E tick \in TicksAt(time, toks) : handleTick(tick)
    /\ UNCHANGED feedLog

\* ------------------------------------------------------------- placeTrade, after its awaits
\* variant of entryAccepted: any answer that is not an exception counts
entryAcceptedMut(res) == res # "throw"

\* line 421: r.stat === 'Ok'
entryAccepted(res) == res = "Ok"

\* lines 417-437: the broker answers the entry order of bracket i
EntryReturn(i, res) ==
    /\ pc # "exited"
    /\ brackets[i].stage = "entry"
    /\ brackets' = [brackets EXCEPT ![i] =
                      IF entryAccepted(res)
                      THEN [@ EXCEPT !.entryRes = res, !.stage = "stop",
                                     !.legs = @ \cup {"stop"}]
                      ELSE [@ EXCEPT !.entryRes = res, !.stage = "done"]]
    /\ UNCHANGED <<time, tickCount, candles, firstCandle, qualified, verdictLog,
                   positions, trades, pc, sqPos, sqIdx, eodOrders, sqStat, malformed, startedAt, wsReady, marketPhase, feedLog>>

\* lines 425-432: the stop order's await settles; a rejection of the promise
\* goes to the catch of line 438
StopReturn(i, res) ==
    /\ pc # "exited"
    /\ brackets[i].stage = "stop"
    /\ brackets' = [brackets EXCEPT ![i] =
                      IF res = "throw"
                      THEN [@ EXCEPT !.stopRes = res, !.stage = "done"]
                      ELSE [@ EXCEPT !.stopRes = res, !.stage = "target",
                                     !.legs = @ \cup {"target"}]]
    /\ UNCHANGED <<time, tickCount, candles, firstCandle, qualified, verdictLog,
                   positions, trades, pc, sqPos, sqIdx, eodOrders, sqStat, malformed, startedAt, wsReady, marketPhase, feedLog>>

\* lines 430-434: the target order's await settles
TargetReturn(i, res) ==
    /\ pc # "exited"
    /\ brackets[i].stage = "target"
    /\ brackets' = [brackets EXCEPT ![i] = [@ EXCEPT !.tgtRes = res, !.stage = "done"]]
    /\ UNCHANGED <<time, tickCount, candles, firstCandle, qualified, verdictLog,
                   positions, trades, pc, sqPos, sqIdx, eodOrders, sqStat, malformed, startedAt, wsReady, marketPhase, feedLog>>

\* ------------------------------------------------------------- runLoop and squareOff
\* lines 450-456 and 541: the loop wakes at or after the close and squareOff
\* asks the broker for the positions
RunLoopClose ==
    /\ pc = "loop"
    /\ timeIsAfter(MARKET_CLOSE, time)
    /\ pc' = "sq_query"
    /\ UNCHANGED <<time, tickCount, candles, firstCandle, qualified, verdictLog,
                   positions, trades, brackets, sqPos, sqIdx, eodOrders, sqStat, malformed, startedAt, wsReady, marketPhase, feedLog>>

\* lines 545-549: the flattening order for position p
flattenOrder(i, netqty) ==
    [i |-> i, side |-> IF netqty > 0 THEN "S" ELSE "B", qty |-> Abs(netqty)]

needsFlatten(netqty) == netqty # 0

\* the for loop of lines 544-552 from index i up to its next await, or to
\* the end of squareOff, generateSummary and process.exit(0)
sqStep(vals, i) ==
    LET rest == {j \in i..Len(vals) : needsFlatten(vals[j])} IN
    IF rest = {}
    THEN /\ pc' = "exited"
         /\ UNCHANGED <<sqIdx, eodOrders>>
    ELSE LET j == CHOOSE j \in rest : \A k \in rest : j <= k IN
         /\ pc' = "sq_order"
         /\ sqIdx' = j
         /\ eodOrders' = Append(eodOrders, flattenOrder(j, vals[j]))

\* lines 541-543: get_positions settles
GetPositionsReturn(res) ==
    /\ pc = "sq_query"
    /\ sqStat' = res.stat
    /\ IF res.stat = "Ok"
       THEN sqPos' = res.values /\ sqStep(res.values, 1)
       ELSE pc' = "exited" /\ UNCHANGED <<sqPos, sqIdx, eodOrders>>
    /\ UNCHANGED <<time, tickCount, candles, firstCandle, qualified, verdictLog,
                   positions, trades, brackets, malformed, startedAt, wsReady, marketPhase, feedLog>>

\* lines 546-551: a flattening order's await settles; a rejection of the
\* promise goes to the catch of line 554
FlattenReturn(res) ==
    /\ pc = "sq_order"
    /\ IF res = "throw"
       THEN pc' = "exited" /\ UNCHANGED <<sqIdx, eodOrders>>
       ELSE sqStep(sqPos, sqIdx + 1)
    /\ UNCHANGED <<time, tickCount, candles, firstCandle, qualified, verdictLog,
                   positions, trades, brackets, sqPos, sqStat, malformed, startedAt, wsReady, marketPhase, feedLog>>

\* ------------------------------------------------------------- websocket
\* lines 190-200: the close callback after a successful connect
WsClose ==
    /\ pc # "exited"
    /\ wsReady
    /\ wsReady' = FALSE
    /\ UNCHANGED <<time, tickCount, candles, firstCandle, qualified, verdictLog,
                   positions, trades, brackets, pc, sqPos, sqIdx, eodOrders,
                   sqStat, malformed, startedAt, marketPhase, feedLog>>

\* ------------------------------------------------------------- broker answers
NetQtys == {-2, 0, 1}

RECURSIVE SeqsUpTo(_, _)
SeqsUpTo(S, n) ==
    IF n = 0 THEN {<<>>}
    ELSE LET shorter == SeqsUpTo(S, n - 1) IN
         shorter \cup {Append(q, x) : q \in shorter, x \in S}

PositionAnswers(n) ==
    {[stat |-> "throw", values |-> <<>>], [stat |-> "Not_Ok", values |-> <<>>]}
    \cup {[stat |-> "Ok", values |-> v] : v \in SeqsUpTo(NetQtys, n)}

OrderAnswers == {"Ok", "Not_Ok", "throw"}

\* ------------------------------------------------------------- specifications
\* The trading session: the process starts at the open or a minute late,
\* the feed has the full tick budget and leaves at most MaxGaps opening
\* minutes empty, and the broker book holds at most MaxBook positions at
\* the close.
Next ==
    \/ ClockAdvance(MaxGaps)
    \/ OnTick(MaxTicks, KnownTokens)
    \/ \E i \in DOMAIN brackets : \E res \in OrderAnswers : EntryReturn(i, res)
    \/ \E i \in DOMAIN brackets : \E res \in OrderAnswers : StopReturn(i, res)
    \/ \E i \in DOMAIN brackets : \E res \in OrderAnswers : TargetReturn(i, res)
    \/ RunLoopClose
    \/ \E res \in PositionAnswers(MaxBook) : GetPositionsReturn(res)
    \/ \E res \in OrderAnswers : FlattenReturn(res)

Spec == Init /\ [][Next]_vars

\* The session with its scheduling: the timer of runLoop fires again and
\* again (sleep(5000) in a loop), and an awaited broker call settles.
LiveSpec ==
    /\ Spec
    /\ WF_vars(RunLoopClose)
    /\ WF_vars(\E res \in PositionAnswers(MaxBook) : GetPositionsReturn(res))
    /\ WF_vars(\E res \in OrderAnswers : FlattenReturn(res))

\* The close of the session: a quiet feed of at most MaxCloseTicks ticks,
\* unknown tokens among them, and a broker book of up to MaxPos positions.
CloseNext ==
    \/ ClockAdvance(FIRST_CANDLE_END - MARKET_OPEN)
    \/ OnTick(MaxCloseTicks, AllTokens)
    \/ RunLoopClose
    \/ \E res \in PositionAnswers(MaxPos) : GetPositionsReturn(res)
    \/ \E res \in OrderAnswers : FlattenReturn(res)

CloseSpec == Init /\ [][CloseNext]_vars

\* The opening range: a full feed of at most MaxRangeTicks well-formed ticks
\* whose prices leave room for a range of 0.7% around an open of 1000 and
\* for a tick on either side of it.
MaxRangeTicks == 6

RangePrices == {998, 1000, 1005, 1006}

RangeTicks == [tk : KnownTokens, lp : RangePrices, c : {Absent}]

RangeOnTick ==
    /\ pc # "exited"
    /\ tickCount < MaxRangeTicks
    /\ \E tick \in RangeTicks : handleTick(tick)
    /\ UNCHANGED feedLog

RangeNext ==
    \/ ClockAdvance(MaxGaps)
    \/ RangeOnTick

RangeSpec == Init /\ [][RangeNext]_vars

\* The close of the session with a feed that may disconnect.
FeedNext ==
    \/ CloseNext
    \/ WsClose

FeedSpec == Init /\ [][FeedNext]_vars

\* One bucket: the clock stands still while the feed delivers at most
\* MaxBucketTicks well-formed ticks of one symbol, and the prices are
\* recorded in feedLog in the order of their arrival.
MaxBucketTicks == 4

BucketOnTick ==
    /\ pc # "exited"
    /\ tickCount < MaxBucketTicks
    /\ \E tick \in RangeTicks :
         /\ handleTick(tick)
         /\ feedLog' = Append(feedLog, tickPrice(tick))

BucketSpec == Init /\ [][BucketOnTick]_vars

\* ------------------------------------------------------------- the second BreakoutBot of bot.js
\* line 752: the candles of the five minutes that end with the tick's minute
first5Rolling(arr, ts) ==
    SelectSeq(arr, LAMBDA cd : cd.ts < ts + 1 /\ cd.ts >= ts - 4 * CandleWidth)

\* lines 751-764: as qualify, over the rolling window; nothing is printed
\* or stored for a window at or above the threshold
qualifyRolling(sym, arr, t) ==
    LET w   == first5Rolling(arr, bucket(t))
        hi  == MaxOf(mapH(w))
        lo  == MinOf(mapL(w))
        op  == w[1].o
        old == [fc |-> firstCandle, q |-> qualified, log |-> verdictLog]
    IN  IF qualifiesNow(sym, t) /\ windowFull(w) /\ volBelowThresh(hi, lo, op)
        THEN [fc  |-> [s \in DOMAIN firstCandle \cup {sym} |->
                         IF s = sym THEN [hi |-> hi, lo |-> lo] ELSE firstCandle[s]],
              q   |-> qualified \cup {sym},
              log |-> [verdictLog EXCEPT ![sym] = Append(@, "qualified")]]
        ELSE old

\* the second onTick, lines 732-780, applied to one tick; it keeps no tick
\* counter of its own, tickCount counts the deliveries of the feed
handleTickRolling(tick) ==
    LET sym == tokenToSymbol(tick.tk) IN
    /\ tickCount' = tickCount + 1
    /\ IF sym = NoSymbol
       THEN UNCHANGED <<candles, firstCandle, qualified, verdictLog,
                        positions, trades, brackets>>
       ELSE LET price == tickPrice(tick)
                arr   == aggregate(candles[sym], bucket(time), price)
                qr    == qualifyRolling(sym, arr, time)
                br    == breakout(sym, price, qr.fc, qr.q, time)
            IN  /\ candles' = [candles EXCEPT ![sym] = arr]
                /\ firstCandle' = qr.fc
                /\ qualified' = qr.q
                /\ verdictLog' = qr.log
                /\ positions' = [positions EXCEPT ![sym] = br.pos]
                /\ trades' = br.trades
                /\ brackets' = br.brackets
    /\ UNCHANGED <<time, pc, sqPos, sqIdx, eodOrders, sqStat, malformed, startedAt,
                   wsReady, marketPhase>>

\* The second bot on a full feed of at most MaxRollTicks well-formed ticks
\* at two prices 1.5% apart.
MaxRollTicks == 7

RollPrices == {1000, 1015}

RollTicks == [tk : KnownTokens, lp : RollPrices, c : {Absent}]

RollOnTick ==
    /\ pc # "exited"
    /\ tickCount < MaxRollTicks
    /\ \E tick \in RollTicks : handleTickRolling(tick)
    /\ UNCHANGED feedLog

RollNext ==
    \/ ClockAdvance(MaxGaps)
    \/ RollOnTick

RollSpec == Init /\ [][RollNext]_vars

\* ------------------------------------------------------------- market phase
\* variant of phase: the branch after the entry cutoff names the phase of
\* the opening range
phaseMut(now) ==
    IF timeIsAfter(MARKET_CLOSE, now) THEN "CLOSED"
    ELSE IF timeIsAfter(ENTRY_CUTOFF, now) THEN "CANDLE FORMATION"
    ELSE IF timeIsAfter(FIRST_CANDLE_END, now) THEN "ACTIVE TRADING"
    ELSE IF timeIsAfter(MARKET_OPEN, now) THEN "CANDLE FORMATION"
    ELSE "PRE-MARKET"

\* lines 484-494: the phase that the minute update of runLoop names
phase(now) ==
    IF timeIsAfter(MARKET_CLOSE, now) THEN "CLOSED"
    ELSE IF timeIsAfter(ENTRY_CUTOFF, now) THEN "POSITION MONITORING"
    ELSE IF timeIsAfter(FIRST_CANDLE_END, now) THEN "ACTIVE TRADING"
    ELSE IF timeIsAfter(MARKET_OPEN, now) THEN "CANDLE FORMATION"
    ELSE "PRE-MARKET"

\* The phase alone: the phase is computed at a first reading t1 of the
\* clock and at a later reading t2 of the same day, both within the hours
\* in which the minute update runs (line 481: 9 <= hour < 16).
DayMinutes == (9 * 60)..(16 * 60 - 1)

PhaseInit ==
    /\ time \in DayMinutes
    /\ startedAt = time
    /\ tickCount = 0
    /\ candles = [s \in Symbols |-> <<>>]
    /\ firstCandle = <<>>
    /\ qualified = {}
    /\ verdictLog = [s \in Symbols |-> <<>>]
    /\ positions = [s \in Symbols |-> <<>>]
    /\ trades = <<>>
    /\ brackets = <<>>
    /\ pc = "loop"
    /\ sqPos = <<>>
    /\ sqIdx = 0
    /\ eodOrders = <<>>
    /\ sqStat = "none"
    /\ malformed = 0
    /\ wsReady = TRUE
    /\ feedLog = <<>>
    /\ marketPhase = phase(time)

PhaseStep ==
    /\ time = startedAt
    /\ \E t \in DayMinutes : t > time /\ time' = t
    /\ marketPhase' = phase(time')
    /\ UNCHANGED <<tickCount, candles, firstCandle, qualified, verdictLog,
                   positions, trades, brackets, pc, sqPos, sqIdx, eodOrders,
                   sqStat, malformed, startedAt, wsReady, feedLog>>

PhaseSpec == PhaseInit /\ [][PhaseStep]_vars

\* The order builder alone: placeTrade's computation applied once to a
\* direction, an entry, a stop and a risk budget drawn from small sets.
BuildPrices == 95..105

BuildRisks == {1, 50, RISK_PER_TRADE}

BuildInit ==
    /\ time = MARKET_OPEN
    /\ startedAt = MARKET_OPEN
    /\ tickCount = 0
    /\ candles = [s \in Symbols |-> <<>>]
    /\ firstCandle = <<>>
    /\ qualified = {}
    /\ verdictLog = [s \in Symbols |-> <<>>]
    /\ positions = [s \in Symbols |-> <<>>]
    /\ trades = <<>>
    /\ brackets = <<>>
    /\ pc = "loop"
    /\ sqPos = <<>>
    /\ sqIdx = 0
    /\ eodOrders = <<>>
    /\ sqStat = "none"
    /\ malformed = 0
    /\ wsReady = TRUE
    /\ feedLog = <<>>
    /\ marketPhase = "none"

BuildIntent ==
    /\ trades = <<>>
    /\ \E sym \in Symbols, dir \in Sides, entry \in BuildPrices, sl \in BuildPrices,
          risk \in BuildRisks :
         trades' = <<intent(sym, dir, entry, sl, risk, time)>>
    /\ UNCHANGED <<time, tickCount, candles, firstCandle, qualified, verdictLog,
                   positions, brackets, pc, sqPos, sqIdx, eodOrders, sqStat,
                   malformed, startedAt, wsReady, marketPhase, feedLog>>

BuildSpec == BuildInit /\ [][BuildIntent]_vars

\* ------------------------------------------------------------- properties
\* admissions so far for (s, d): every call of placeTrade is followed by
\* pm.add, and nothing in the engine closes a slot
admitted(s, d) == Cardinality({i \in DOMAIN trades : trades[i].sym = s /\ trades[i].dir = d})

windowCount(s) ==
    Cardinality({i \in DOMAIN candles[s] :
                   candles[s][i].ts >= MARKET_OPEN /\ candles[s][i].ts < FIRST_CANDLE_END})

jsLE(a, b) == a # NaN /\ b # NaN /\ a <= b

\* C1: for every symbol and side, the entries admitted without an
\* intervening close never exceed maxPerSide.
C1_AtMostMaxPerSide ==
    \A s \in Symbols, d \in Sides : admitted(s, d) <= maxPerSide

\* C2: canEnter(symbol, side) is false exactly when the slots admitted for
\* (symbol, side) and not closed number maxPerSide, and true otherwise.
C2_CanEnterIffBelowCap ==
    \A s \in Symbols, d \in Sides :
        canEnter(positions[s], d) <=> (admitted(s, d) # maxPerSide)

\* C3: every breakout signal was emitted at a clock reading strictly before
\* the entry cutoff and for a symbol with a stored qualified opening range.
C3_SignalsBeforeCutoffQualified ==
    \A i \in DOMAIN trades :
        /\ trades[i].at < ENTRY_CUTOFF
        /\ trades[i].sym \in qualified
        /\ trades[i].sym \in DOMAIN firstCandle

\* C3 witness: a qualified symbol received a tick above its range at or
\* after the entry cutoff and no signal was emitted.
C3_Witness ==
    \E s \in qualified :
        /\ trades = <<>>
        /\ \E i \in DOMAIN candles[s] :
             /\ candles[s][i].ts >= ENTRY_CUTOFF
             /\ jsGT(candles[s][i].h, firstCandle[s].hi)

\* C4: the qualification of a symbol is computed at most once in a session,
\* so at most one verdict is ever produced for it.
C4_EvaluatedAtMostOnce ==
    \A s \in Symbols : Len(verdictLog[s]) <= 1

\* C5: a verdict or a stored range exists for a symbol only if its
\* opening-range window holds exactly 5 candles.
C5_VerdictNeedsFullWindow ==
    \A s \in Symbols :
        (verdictLog[s] # <<>> \/ s \in DOMAIN firstCandle \/ s \in qualified)
            => windowCount(s) = 5

\* C5 witness: a tick was processed at or after the first-candle-end cutoff
\* for a symbol whose window holds 4 candles, and no verdict was produced.
C5_Witness ==
    \E s \in Symbols :
        /\ windowCount(s) = 4
        /\ \E i \in DOMAIN candles[s] : candles[s][i].ts >= FIRST_CANDLE_END
        /\ verdictLog[s] = <<>>
        /\ s \notin DOMAIN firstCandle

\* C6: the bucket starts of each symbol's candles are strictly increasing
\* in insertion order.
C6_BucketsStrictlyIncreasing ==
    \A s \in Symbols : \A i, j \in DOMAIN candles[s] :
        i < j => candles[s][i].ts < candles[s][j].ts

\* C6 witness: a symbol has several candles and at least one of them took
\* more than one tick.
C6_Witness ==
    \E s \in Symbols :
        /\ Len(candles[s]) >= 3
        /\ tickCount > Len(candles[s])

\* C7: every candle satisfies low <= open <= high and low <= close <= high.
C7_CandleOHLC ==
    \A s \in Symbols : \A i \in DOMAIN candles[s] :
        LET cd == candles[s][i] IN
        /\ jsLE(cd.l, cd.o) /\ jsLE(cd.o, cd.h)
        /\ jsLE(cd.l, cd.c) /\ jsLE(cd.c, cd.h)

\* the flattening orders the claim expects for the positions vals
RECURSIVE expectedFlatten(_, _)
expectedFlatten(vals, i) ==
    IF i > Len(vals) THEN <<>>
    ELSE (IF vals[i] # 0
          THEN <<[i |-> i, side |-> IF vals[i] > 0 THEN "S" ELSE "B", qty |-> Abs(vals[i])]>>
          ELSE <<>>) \o expectedFlatten(vals, i + 1)

\* C8: when squareOff has run with a successful position query, exactly one
\* flattening order was submitted per non-zero position, a sell for a
\* positive and a buy for a negative net quantity, for its absolute value.
C8_OneFlattenPerNonZero ==
    (pc = "exited" /\ sqStat = "Ok") => eodOrders = expectedFlatten(sqPos, 1)

\* C9: quantity = max(1, floor(risk / |entry - stop|)), target = entry +
\* (entry - stop) for Long and entry - (stop - entry) for Short; entry 100,
\* stop 95, Long, risk 100 gives quantity 20 and target 105.
C9_QuantityAndTarget ==
    \A i \in DOMAIN trades :
        LET t == trades[i]
            d == IF t.entry >= t.sl THEN t.entry - t.sl ELSE t.sl - t.entry
        IN
        /\ d # 0 => /\ t.qty >= 1
                    /\ t.qty * d <= Max2(t.risk, d)
                    /\ (t.qty + 1) * d > t.risk
        /\ t.dir = "LONG" => t.tgt - t.entry = t.entry - t.sl
        /\ t.dir = "SHORT" => t.entry - t.tgt = t.sl - t.entry
        /\ (t.dir = "LONG" /\ t.entry = 100 /\ t.sl = 95 /\ t.risk = 100)
              => (t.qty = 20 /\ t.tgt = 105)

\* C9 witness: the builder was applied to entry 100, stop 95, Long, risk 100.
C9_Witness ==
    \E i \in DOMAIN trades :
        /\ trades[i].dir = "LONG" /\ trades[i].entry = 100
        /\ trades[i].sl = 95 /\ trades[i].risk = 100

\* C10 as stated: Short, entry 100, stop 98, risk 50 gives quantity 25 and
\* target 96.
C10_ShortExampleAsStated ==
    \A i \in DOMAIN trades :
        (trades[i].dir = "SHORT" /\ trades[i].entry = 100
            /\ trades[i].sl = 98 /\ trades[i].risk = 50)
        => (trades[i].qty = 25 /\ trades[i].tgt = 96)

\* C10 amended: Short, entry 100, stop 98, risk 50 gives quantity 25 and
\* target 102, which is entry - (stop - entry).
C10_ShortExampleAmended ==
    \A i \in DOMAIN trades :
        (trades[i].dir = "SHORT" /\ trades[i].entry = 100
            /\ trades[i].sl = 98 /\ trades[i].risk = 50)
        => (trades[i].qty = 25 /\ trades[i].tgt = 102)

\* C10 witness: the builder was applied to Short, entry 100, stop 98, risk 50.
C10_Witness ==
    \E i \in DOMAIN trades :
        /\ trades[i].dir = "SHORT" /\ trades[i].entry = 100
        /\ trades[i].sl = 98 /\ trades[i].risk = 50

\* ------------------------------------------------------------- opening range, as the claims state it
openWin(s) == first5(candles[s])

openHi(s) == MaxOf(mapH(openWin(s)))

openLo(s) == MinOf(mapL(openWin(s)))

openOp(s) == openWin(s)[1].o

\* the price of the tick handled last for s
lastPrice(s) == candles[s][Len(candles[s])].c

\* exactly N opening-window candles whose volatilityPct is below the threshold
quietOpen(s) ==
    /\ Len(openWin(s)) = 5
    /\ openHi(s) # NaN /\ openLo(s) # NaN /\ openOp(s) # NaN
    /\ (openHi(s) - openLo(s)) * 100 < VOLATILITY_THRESH * openOp(s)

slots(s, d) == Len(SelectSeq(positions[s], LAMBDA p : p.side = d))

\* the step appends exactly one signal for s with the given side, entry and stop
oneSignal(s, d, entry, sl) ==
    /\ Len(trades') = Len(trades) + 1
    /\ SubSeq(trades', 1, Len(trades)) = trades
    /\ trades'[Len(trades')].sym = s
    /\ trades'[Len(trades')].dir = d
    /\ trades'[Len(trades')].entry = entry
    /\ trades'[Len(trades')].sl = sl

\* a tick of s has been handled at or after the first-candle-end cutoff
tickedAfterWindow(s) ==
    candles[s] # <<>> /\ candles[s][Len(candles[s])].ts >= bucket(FIRST_CANDLE_END)

\* C11: once a tick has been handled at or after the first-candle-end cutoff
\* for a symbol with exactly N opening-window candles of volatility below
\* the threshold, the symbol is qualified with the range of those candles;
\* and a tick handled before the entry cutoff for a qualified symbol with no
\* Long slot and a price above range.high emits exactly one Long signal with
\* entry = range.high and stop = range.low (Short: price below range.low,
\* entry = range.low, stop = range.high).
C11_QualifiedThenSignal ==
    /\ [](\A s \in Symbols :
            (tickedAfterWindow(s) /\ quietOpen(s)) =>
              /\ s \in qualified
              /\ firstCandle[s].hi = openHi(s)
              /\ firstCandle[s].lo = openLo(s))
    /\ [][\A s \in Symbols :
            tickCount' = tickCount + 1 =>
              /\ (s \in qualified' /\ time < ENTRY_CUTOFF /\ slots(s, "LONG") = 0
                    /\ jsGT(lastPrice(s)', firstCandle'[s].hi)) =>
                    oneSignal(s, "LONG", firstCandle'[s].hi, firstCandle'[s].lo)
              /\ (s \in qualified' /\ time < ENTRY_CUTOFF /\ slots(s, "SHORT") = 0
                    /\ jsLT(lastPrice(s)', firstCandle'[s].lo)) =>
                    oneSignal(s, "SHORT", firstCandle'[s].lo, firstCandle'[s].hi)
         ]_vars

\* a range of 0.7% (open 1000, high 1005, low 998) and a Long signal on it
C11_Witness ==
    \E s \in Symbols :
      /\ s \in qualified
      /\ openOp(s) = 1000 /\ firstCandle[s].hi = 1005 /\ firstCandle[s].lo = 998
      /\ lastPrice(s) = 1006
      /\ Len(trades) = 1
      /\ trades[1].dir = "LONG" /\ trades[1].entry = 1005 /\ trades[1].sl = 998

\* exactly N opening-window candles whose volatilityPct is at or above the threshold
volatileOpen(s) ==
    /\ Len(openWin(s)) = 5
    /\ openHi(s) # NaN /\ openLo(s) # NaN /\ openOp(s) # NaN
    /\ (openHi(s) - openLo(s)) * 100 >= VOLATILITY_THRESH * openOp(s)

\* C12: from the first-candle-end cutoff on, a symbol whose N opening-window
\* candles give a volatility at or above the threshold is not in the
\* qualified set and has no breakout signal.
C12_DisqualifiedNeverTrades ==
    \A s \in Symbols :
      (time >= FIRST_CANDLE_END /\ volatileOpen(s)) =>
        /\ s \notin qualified
        /\ \A i \in DOMAIN trades : trades[i].sym # s

\* C13: handling a tick whose price is not a finite positive number changes
\* no candle and takes no qualification or breakout decision.
C13_InvalidTickDropped ==
    [][malformed' = malformed + 1 =>
         UNCHANGED <<candles, firstCandle, qualified, verdictLog,
                     positions, trades, brackets>>]_vars

\* brackets of (s, d) whose entry leg the broker has not refused
liveBrackets(s, d) ==
    {i \in DOMAIN trades : /\ trades[i].sym = s /\ trades[i].dir = d
                           /\ brackets[i].entryRes \notin {"Not_Ok", "throw"}}

\* C14: the Position Manager lists a slot for (symbol, side) only for the
\* brackets whose entry leg was not rejected and did not fail.
C14_SlotReleasedOnEntryReject ==
    \A s \in Symbols, d \in Sides : slots(s, d) = Cardinality(liveBrackets(s, d))

\* C15: a bracket has a stop or a target leg submitted only if its entry
\* leg was accepted.
C15_LegsOnlyAfterEntryAccepted ==
    \A i \in DOMAIN brackets :
      brackets[i].legs \cap {"stop", "target"} # {} => brackets[i].entryRes = "Ok"

\* one bracket ended by a rejected entry and one by a failed entry, each
\* with the entry leg alone
C15_Witness ==
    \E i, j \in DOMAIN brackets :
      /\ brackets[i].entryRes = "Not_Ok" /\ brackets[i].stage = "done"
      /\ brackets[i].legs = {"entry"}
      /\ brackets[j].entryRes = "throw" /\ brackets[j].stage = "done"
      /\ brackets[j].legs = {"entry"}

\* C16: once the stop leg of a bracket has been answered, whatever the
\* answer, the target leg has been submitted.
C16_TargetIndependentOfStop ==
    \A i \in DOMAIN brackets :
      brackets[i].stopRes # "none" => "target" \in brackets[i].legs

\* C19: while squareOff waits for the broker's positions or for a flattening
\* order, no bracket started by onTick is still in flight.
C19_SquareOffNotInterleaved ==
    pc \in {"sq_query", "sq_order"} =>
      \A i \in DOMAIN brackets : brackets[i].stage = "done"

\* C17: once the clock has reached the market close the session eventually
\* terminates, it terminates only after square-off has run, and a
\* terminated session takes no further step (no tick, signal or order).
C17_CloseThenTerminate ==
    /\ (time >= MARKET_CLOSE) ~> (pc = "exited")
    /\ [](pc = "exited" => sqStat # "none")
    /\ [][pc # "exited"]_vars

\* a session terminated after a square-off that flattened a position
C17_Witness ==
    /\ pc = "exited" /\ time >= MARKET_CLOSE
    /\ sqStat = "Ok" /\ Len(eodOrders) = 1

\* the order of the phases within a day
phaseRank(p) ==
    CASE p = "PRE-MARKET" -> 1
      [] p = "CANDLE FORMATION" -> 2
      [] p = "ACTIVE TRADING" -> 3
      [] p = "POSITION MONITORING" -> 4
      [] p = "CLOSED" -> 5
      [] OTHER -> 0

\* C18: whenever the clock moves from a time of the day to a later one, the
\* phase computed at the later time is the same or a later phase, so no
\* phase is entered again.
C18_PhaseMonotonic ==
    [][time' >= time => phaseRank(marketPhase') >= phaseRank(marketPhase)]_vars

\* the phase computed on both sides of the entry cutoff
C18_Witness ==
    /\ startedAt < ENTRY_CUTOFF /\ phase(startedAt) = "ACTIVE TRADING"
    /\ time >= ENTRY_CUTOFF /\ marketPhase = "POSITION MONITORING"

\* C20: once the feed has disconnected, no step admits an entry and no step
\* starts or continues the end-of-session square-off.
C20_DisconnectStopsSession ==
    [][~wsReady => /\ trades' = trades
                   /\ pc' \notin {"sq_query", "sq_order"}
                   /\ eodOrders' = eodOrders]_vars

\* C21: when squareOff has returned after a successful position query, a
\* flattening order has been submitted for every non-zero position of the
\* answer, whatever the broker answered to the other submissions.
C21_SquareOffFailureContained ==
    (pc = "exited" /\ sqStat = "Ok") =>
      \A j \in DOMAIN sqPos :
        needsFlatten(sqPos[j]) => \E k \in DOMAIN eodOrders : eodOrders[k].i = j

\* the candles that the aggregation of lines 284-299 builds from the prices
\* of one bucket, taken in the given order
RECURSIVE aggregateAll(_, _, _)
aggregateAll(arr, ts, prices) ==
    IF prices = <<>> THEN arr
    ELSE aggregateAll(aggregate(arr, ts, Head(prices)), ts, Tail(prices))

Perms(n) == {f \in [1..n -> 1..n] : \A i, j \in 1..n : i # j => f[i] # f[j]}

reorder(seq, f) == [i \in 1..Len(seq) |-> seq[f[i]]]

\* C22: the candle built from the ticks of one bucket has the same high,
\* low and close as the candle built from any other ordering of the same
\* ticks.
C22_OrderIndependentCandle ==
    \A s \in Symbols :
      (feedLog # <<>> /\ Len(candles[s]) = 1) =>
        \A f \in Perms(Len(feedLog)) :
          LET a == candles[s][1]
              b == aggregateAll(<<>>, a.ts, reorder(feedLog, f))[1]
          IN  a.h = b.h /\ a.l = b.l /\ a.c = b.c

\* C23: when the entry order of a bracket was issued, the Position Manager
\* already listed the slot of that bracket, together with the slots of the
\* earlier brackets of the same symbol and side.
C23_SlotBeforeSubmission ==
    \A i \in DOMAIN brackets :
      brackets[i].slotsAtSubmit >=
        Cardinality({j \in 1..i : /\ trades[j].sym = trades[i].sym
                                  /\ trades[j].dir = trades[i].dir})

\* C24: once a tick has been handled at or after the first-candle-end cutoff
\* for a symbol whose window holds exactly N candles, the symbol is qualified
\* iff (high - low) / open * 100 is strictly below the threshold, with high
\* the maximum of the window highs, low the minimum of the window lows and
\* open the first window candle's open; the stored range carries that high,
\* low and volatility, and nothing is stored otherwise.
C24_RangeAndVerdict ==
    \A s \in Symbols :
      (tickedAfterWindow(s) /\ Len(openWin(s)) = 5) =>
        /\ s \in qualified <=> quietOpen(s)
        /\ s \in DOMAIN firstCandle <=> quietOpen(s)
        /\ quietOpen(s) =>
              /\ firstCandle[s].hi = openHi(s)
              /\ firstCandle[s].lo = openLo(s)
              /\ firstCandle[s].volatility =
                    <<(openHi(s) - openLo(s)) * 100, openOp(s)>>

\* a window whose volatility equals the threshold (open 100, range 100-101)
\* got its verdict and the symbol is not qualified
C24_Witness ==
    \E s \in Symbols :
      /\ tickedAfterWindow(s) /\ Len(openWin(s)) = 5
      /\ openHi(s) # NaN /\ openLo(s) # NaN /\ openOp(s) # NaN
      /\ (openHi(s) - openLo(s)) * 100 = VOLATILITY_THRESH * openOp(s)
      /\ verdictLog[s] # <<>>
      /\ s \notin qualified

\* C25: from the first-candle-end cutoff on, a symbol whose window
\* [marketOpen, firstCandleEnd) holds a number of candles different from N
\* has no verdict, no stored range, is not qualified and has no signal.
C25_ShortWindowNeverEvaluated ==
    \A s \in Symbols :
      (time >= FIRST_CANDLE_END /\ windowCount(s) # 5) =>
        /\ verdictLog[s] = <<>>
        /\ s \notin DOMAIN firstCandle
        /\ s \notin qualified
        /\ \A i \in DOMAIN trades : trades[i].sym # s

\* C26: every step leaves all candles but the last of each symbol as they
\* were and removes none; it either appends one candle, leaving the former
\* last one as it was, or keeps the count, and then the last candle keeps
\* its open and bucket start, and for numeric prices its high is the
\* maximum and its low the minimum of the former value and the tick's
\* price, which is its close.
C26_OnlyLastCandleChanges ==
    [][\A s \in Symbols :
         LET old == candles[s]
             new == candles'[s]
             n   == Len(old)
         IN  /\ Len(new) \in {n, n + 1}
             /\ \A i \in 1..(n - 1) : new[i] = old[i]
             /\ (Len(new) = n + 1 /\ n > 0) => new[n] = old[n]
             /\ (Len(new) = n /\ n > 0) =>
                   /\ new[n].o = old[n].o
                   /\ new[n].ts = old[n].ts
                   /\ (old[n].h # NaN /\ old[n].l # NaN /\ new[n].c # NaN) =>
                         /\ new[n].h = Max2(old[n].h, new[n].c)
                         /\ new[n].l = Min2(old[n].l, new[n].c)
      ]_vars

\* a candle that took ticks at two prices, followed by a newer candle
C26_Witness ==
    \E s \in Symbols : \E i \in DOMAIN candles[s] :
      /\ i < Len(candles[s])
      /\ candles[s][i].l # NaN /\ candles[s][i].h # NaN
      /\ candles[s][i].l < candles[s][i].h
      /\ candles[s][i].o # candles[s][i].c

\* C27: while the clock is before the first-candle-end cutoff no opening
\* range is stored and no symbol is qualified.
C27_NothingBeforeWindowEnd ==
    time < FIRST_CANDLE_END => (DOMAIN firstCandle = {} /\ qualified = {})

\* the window already holds N candles one minute before the cutoff, and
\* nothing is stored
C27_Witness ==
    \E s \in Symbols :
      /\ time < FIRST_CANDLE_END
      /\ windowCount(s) = 5
      /\ DOMAIN firstCandle = {} /\ qualified = {} /\ verdictLog[s] = <<>>

\* C28: every stored opening range has low <= high, and no step emits both
\* a Long and a Short signal for the same symbol.
C28_RangeOrderedOneSide ==
    /\ [](\A s \in DOMAIN firstCandle : jsLE(firstCandle[s].lo, firstCandle[s].hi))
    /\ [][\A i, j \in (Len(trades) + 1)..Len(trades') :
            trades'[i].sym = trades'[j].sym => trades'[i].dir = trades'[j].dir]_vars

\* a stored range with low < high and a Short signal on it
C28_Witness ==
    \E s \in qualified :
      /\ firstCandle[s].lo < firstCandle[s].hi
      /\ \E i \in DOMAIN trades :
           /\ trades[i].sym = s /\ trades[i].dir = "SHORT"
           /\ trades[i].entry = firstCandle[s].lo /\ trades[i].sl = firstCandle[s].hi

\* C29: every signal handed to placeTrade has an entry price different from
\* its stop price, and its quantity is a finite positive integer.
C29_EntryDiffersFromStop ==
    \A i \in DOMAIN trades :
      /\ trades[i].entry # trades[i].sl
      /\ trades[i].qty # Infinity /\ trades[i].qty # NaN
      /\ trades[i].qty >= 1

====
